---------------------------- MODULE Spec2Model ----------------------------
(***************************************************************************)
(* Model of the CV generation core: the extraction functions of            *)
(* cv_data_extractor.py, the profile settings of profile_loader.py, the    *)
(* hyperlink helpers of docx_helpers.py and the context assembly of        *)
(* template_renderer.py.                                                   *)
(*                                                                         *)
(* Representation of Python values:                                        *)
(*   - a dict is a function whose DOMAIN is the set of keys present; the   *)
(*     empty dict and the empty list are both <<>>;                        *)
(*   - a list is a sequence; a str is a string;                            *)
(*   - JSON booleans (isEarlierExperience, showSection) are written as     *)
(*     their JSON literal, "true" / "false";                               *)
(*   - an Optional argument is [some |-> FALSE] (None) or                  *)
(*     [some |-> TRUE, val |-> d];                                         *)
(*   - a context field that is either a str or a RichText is tagged:       *)
(*     [type |-> "str", value |-> s] or [type |-> "RichText", ...].        *)
(***************************************************************************)
EXTENDS Integers, Sequences, FiniteSets, TLC

VARIABLES cv_data, profile, op, ret, exc, doc, fill, gui

vars == <<cv_data, profile, op, ret, exc, doc, fill, gui>>

(***************************************************************************)
(* Bounds of the explored inputs.                                          *)
(***************************************************************************)
MaxProfiles == 2
MaxWork == 2
MaxHighlights == 2
MaxVolunteer == 2
MaxIds == 2
MaxThreads == 2

SeqsUpTo(S, n) == UNION {[1..k -> S] : k \in 0..n}

(***************************************************************************)
(* Python primitives.                                                      *)
(***************************************************************************)
EmptyDict == <<>>

EmptyList == <<>>

\* d.get(k, default)
dict_get(d, k, default) == IF k \in DOMAIN d THEN d[k] ELSE default

\* bool(s) for a str, and for a JSON literal in a flag position
truthy(v) == v \notin {"", "false"}

\* str.lower() on the network names the model draws
lower(s) ==
    CASE s = "LinkedIn" -> "linkedin"
      [] s = "LINKEDIN" -> "linkedin"
      [] s = "GitHub" -> "github"
      [] OTHER -> s

None == [some |-> FALSE]

Some(d) == [some |-> TRUE, val |-> d]

(***************************************************************************)
(* cv_data_extractor.py                                                    *)
(***************************************************************************)

\* as linkedin_scan, without the break: the last matching entry wins
RECURSIVE linkedin_scan_last(_, _)
linkedin_scan_last(profiles, i) ==
    IF i > Len(profiles) THEN ""
    ELSE LET rest == linkedin_scan_last(profiles, i + 1)
         IN  IF lower(dict_get(profiles[i], "network", "")) = "linkedin"
                /\ ~ (\E j \in (i + 1)..Len(profiles) :
                         lower(dict_get(profiles[j], "network", "")) = "linkedin")
             THEN dict_get(profiles[i], "url", "")
             ELSE rest

\* the for/break loop of extract_header_data over basics.profiles, from
\* index i on; linkedin_url starts as ''
RECURSIVE linkedin_scan(_, _)
linkedin_scan(profiles, i) ==
    IF i > Len(profiles) THEN ""
    ELSE IF lower(dict_get(profiles[i], "network", "")) = "linkedin"
         THEN dict_get(profiles[i], "url", "")
         ELSE linkedin_scan(profiles, i + 1)

extract_header_data(cv) ==
    LET basics == dict_get(cv, "basics", EmptyDict)
        location == dict_get(basics, "location", EmptyDict)
        profiles == dict_get(basics, "profiles", EmptyList)
        linkedin_url == linkedin_scan(profiles, 1)
        meta == dict_get(cv, "meta", EmptyDict)
        personal == dict_get(meta, "_personal", EmptyDict)
    IN  [name |-> dict_get(basics, "name", ""),
         address |-> dict_get(location, "address", ""),
         postalCode |-> dict_get(location, "postalCode", ""),
         city |-> dict_get(location, "city", ""),
         country |-> dict_get(location, "country", ""),
         phone |-> dict_get(basics, "phone", ""),
         email |-> dict_get(basics, "email", ""),
         linkedin_url |-> linkedin_url,
         nationality |-> dict_get(personal, "nationality", ""),
         birth_date |-> dict_get(personal, "birth_date", ""),
         marital_status |-> dict_get(personal, "marital_status", ""),
         children |-> dict_get(personal, "children", 0)]

extract_summary_data(cv) ==
    LET summaries == dict_get(cv, "summaries", EmptyDict)
    IN  dict_get(summaries, "default", "")

\* as highlight_texts, leaving out the highlights without a text field
highlight_texts_skip(highlights) ==
    LET with_text == SelectSeq(highlights, LAMBDA h : "text" \in DOMAIN h)
    IN  [i \in 1..Len(with_text) |-> with_text[i]["text"]]

\* [h.get('text', '') for h in highlights]
highlight_texts(highlights) ==
    [i \in 1..Len(highlights) |-> dict_get(highlights[i], "text", "")]

\* the position dict built at the top of the loop body
work_position(entry) ==
    [company |-> dict_get(entry, "company", ""),
     title |-> dict_get(entry, "title", ""),
     location |-> dict_get(entry, "location", ""),
     startDate |-> dict_get(entry, "startDate", ""),
     endDate |-> dict_get(entry, "endDate", ""),
     highlights |-> highlight_texts(dict_get(entry, "highlights", EmptyList))]

\* bool(v) of a JSON value in the isEarlierExperience position, the value
\* written as its JSON literal: false, null, 0, "", [] and {} are falsy
flag_truthy(v) == v \notin {"false", "null", "0", "\"\"", "[]", "{}"}

\* the test that routes an entry to earlier_work
is_earlier(entry) == flag_truthy(dict_get(entry, "isEarlierExperience", "false"))

\* the position appended to earlier_work
earlier_position(entry) ==
    work_position(entry) @@
    ("earlierExperienceGroup" :> dict_get(entry, "earlierExperienceGroup", ""))

\* as work_loop, inserting each earlier position at the front of the list
RECURSIVE work_loop_prepend(_, _, _, _)
work_loop_prepend(work_entries, i, main_work, earlier_work) ==
    IF i > Len(work_entries) THEN <<main_work, earlier_work>>
    ELSE IF is_earlier(work_entries[i])
         THEN work_loop_prepend(work_entries, i + 1, main_work,
                                <<earlier_position(work_entries[i])>> \o earlier_work)
         ELSE work_loop_prepend(work_entries, i + 1,
                                Append(main_work, work_position(work_entries[i])),
                                earlier_work)

\* the loop of extract_work_data from index i on, with the two lists built
\* so far
RECURSIVE work_loop(_, _, _, _)
work_loop(work_entries, i, main_work, earlier_work) ==
    IF i > Len(work_entries) THEN <<main_work, earlier_work>>
    ELSE IF is_earlier(work_entries[i])
         THEN work_loop(work_entries, i + 1, main_work,
                        Append(earlier_work, earlier_position(work_entries[i])))
         ELSE work_loop(work_entries, i + 1,
                        Append(main_work, work_position(work_entries[i])),
                        earlier_work)

extract_work_data(cv) ==
    work_loop(dict_get(cv, "work", EmptyList), 1, <<>>, <<>>)

extract_education_data(cv) ==
    LET education_entries == dict_get(cv, "education", EmptyList)
    IN  [i \in 1..Len(education_entries) |->
            [institution |-> dict_get(education_entries[i], "institution", ""),
             studyType |-> dict_get(education_entries[i], "studyType", ""),
             area |-> dict_get(education_entries[i], "area", ""),
             endDate |-> dict_get(education_entries[i], "endDate", "")]]

\* as volunteer_title, with position taking precedence over title
volunteer_title_position_first(entry) ==
    IF truthy(dict_get(entry, "position", ""))
    THEN dict_get(entry, "position", "")
    ELSE dict_get(entry, "title", "")

\* entry.get('title', '') or entry.get('position', '')
volunteer_title(entry) ==
    IF truthy(dict_get(entry, "title", ""))
    THEN dict_get(entry, "title", "")
    ELSE dict_get(entry, "position", "")

extract_volunteer_data(cv) ==
    LET volunteer_entries == dict_get(cv, "volunteer", EmptyList)
    IN  [i \in 1..Len(volunteer_entries) |->
            [organization |-> dict_get(volunteer_entries[i], "organization", ""),
             title |-> volunteer_title(volunteer_entries[i]),
             startDate |-> dict_get(volunteer_entries[i], "startDate", ""),
             endDate |-> dict_get(volunteer_entries[i], "endDate", ""),
             summary |-> dict_get(volunteer_entries[i], "summary", ""),
             highlights |-> dict_get(volunteer_entries[i], "highlights", EmptyList)]]

\* {cat.get('id', ''): cat.get('name', '') for cat in categories}: a later
\* category with the same id replaces an earlier one
RECURSIVE build_category_lookup(_, _)
build_category_lookup(categories, n) ==
    IF n = 0 THEN EmptyDict
    ELSE (dict_get(categories[n], "id", "") :> dict_get(categories[n], "name", ""))
         @@ build_category_lookup(categories, n - 1)

\* as comp_lookup_value, storing the database record itself
comp_lookup_value_raw(comp) == comp

\* the value stored in comp_lookup for one database record
comp_lookup_value(comp) ==
    ("name" :> dict_get(comp, "name", "")) @@
    ("categoryId" :> dict_get(comp, "categoryId", ""))

\* the loop that fills comp_lookup; a later record with the same id replaces
\* an earlier one
RECURSIVE build_comp_lookup(_, _)
build_comp_lookup(database, n) ==
    IF n = 0 THEN EmptyDict
    ELSE (dict_get(database[n], "id", "") :> comp_lookup_value(database[n]))
         @@ build_comp_lookup(database, n - 1)

\* as competency_loop, emitting an empty entry for an unresolved identifier
RECURSIVE competency_loop_keeps_unresolved(_, _, _, _, _)
competency_loop_keeps_unresolved(selected_ids, i, comp_lookup, category_lookup, result) ==
    IF i > Len(selected_ids) THEN result
    ELSE IF selected_ids[i] \in DOMAIN comp_lookup
         THEN LET comp == comp_lookup[selected_ids[i]]
              IN  competency_loop_keeps_unresolved(
                      selected_ids, i + 1, comp_lookup, category_lookup,
                      Append(result,
                             [name |-> comp["name"],
                              category |-> dict_get(category_lookup,
                                                    comp["categoryId"], "")]))
         ELSE competency_loop_keeps_unresolved(
                  selected_ids, i + 1, comp_lookup, category_lookup,
                  Append(result, [name |-> "", category |-> ""]))

\* the loop over selected_ids from index i on, with the result built so far
RECURSIVE competency_loop(_, _, _, _, _)
competency_loop(selected_ids, i, comp_lookup, category_lookup, result) ==
    IF i > Len(selected_ids) THEN result
    ELSE IF selected_ids[i] \in DOMAIN comp_lookup
         THEN LET comp == comp_lookup[selected_ids[i]]
              IN  competency_loop(selected_ids, i + 1, comp_lookup, category_lookup,
                      Append(result,
                             [name |-> comp["name"],
                              category |-> dict_get(category_lookup,
                                                    comp["categoryId"], "")]))
         ELSE competency_loop(selected_ids, i + 1, comp_lookup, category_lookup,
                              result)

\* comp['name'] or comp['categoryId'] raises KeyError when the key is
\* missing from a stored comp_lookup value of a selected identifier
competency_key_error(selected_ids, comp_lookup) ==
    \E i \in 1..Len(selected_ids) :
        /\ selected_ids[i] \in DOMAIN comp_lookup
        /\ ~ ({"name", "categoryId"} \subseteq DOMAIN comp_lookup[selected_ids[i]])

competencies_inputs(cv) ==
    LET competencies == dict_get(cv, "competencies", EmptyDict)
        standard_set == dict_get(competencies, "standardSet", EmptyDict)
    IN  [database |-> dict_get(competencies, "database", EmptyList),
         categories |-> dict_get(competencies, "categories", EmptyList),
         selected_ids |-> dict_get(standard_set, "competencyIds", EmptyList)]

extract_competencies_raises(cv) ==
    LET in == competencies_inputs(cv)
    IN  competency_key_error(in.selected_ids,
                             build_comp_lookup(in.database, Len(in.database)))

extract_competencies_data(cv) ==
    LET in == competencies_inputs(cv)
    IN  competency_loop(in.selected_ids, 1,
                        build_comp_lookup(in.database, Len(in.database)),
                        build_category_lookup(in.categories, Len(in.categories)),
                        <<>>)

extract_languages_data(cv) ==
    LET languages == dict_get(cv, "languages", EmptyList)
    IN  [i \in 1..Len(languages) |->
            [language |-> dict_get(languages[i], "language", ""),
             fluency |-> dict_get(languages[i], "fluency", ""),
             certificationLevel |-> dict_get(languages[i], "certificationLevel", "")]]

(***************************************************************************)
(* profile_loader.py                                                       *)
(***************************************************************************)
\* as get_earlier_experience_settings, never reading defaultMode
get_earlier_experience_settings_fixed_mode(p) ==
    LET settings == dict_get(p, "earlierExperienceDisplay", EmptyDict)
    IN  [showSection |-> dict_get(settings, "showSection", "true"),
         defaultMode |-> "detailed"]

\* as get_earlier_experience_settings, with another default for defaultMode
get_earlier_experience_settings_default_full(p) ==
    LET settings == dict_get(p, "earlierExperienceDisplay", EmptyDict)
    IN  [showSection |-> dict_get(settings, "showSection", "true"),
         defaultMode |-> dict_get(settings, "defaultMode", "full")]

get_earlier_experience_settings(p) ==
    LET settings == dict_get(p, "earlierExperienceDisplay", EmptyDict)
    IN  [showSection |-> dict_get(settings, "showSection", "true"),
         defaultMode |-> dict_get(settings, "defaultMode", "detailed")]

(***************************************************************************)
(* docx_helpers.py.  The document handle is the sequence of hyperlink      *)
(* targets registered on it so far; a target is the sequence of the string *)
(* pieces it is concatenated from.                                         *)
(***************************************************************************)

\* doc.build_url_id(target): registers the target on the document and
\* returns the id of the new relationship
build_url_id(d, target) == [doc |-> Append(d, target), url_id |-> Len(d) + 1]

\* f"mailto:{email}"
mailto_target(email) == <<"mailto:", email>>

\* the url, passed as given
url_target(url) == <<url>>

RichText(text, url_id) ==
    [type |-> "RichText", text |-> text, url_id |-> url_id, style |-> "Hyperlink"]

\* a plain str in a field that may also hold a RichText
Str(s) == [type |-> "str", value |-> s]

create_email_hyperlink(d, email) ==
    LET reg == build_url_id(d, mailto_target(email))
    IN  [doc |-> reg.doc, rt |-> RichText(email, reg.url_id)]

\* as create_url_hyperlink, registering the url a second time
create_url_hyperlink_twice(d, url) ==
    LET first == build_url_id(d, url_target(url))
        reg == build_url_id(first.doc, url_target(url))
    IN  [doc |-> reg.doc, rt |-> RichText(url, reg.url_id)]

\* called without display_text, so the text shown is the url
create_url_hyperlink(d, url) ==
    LET reg == build_url_id(d, url_target(url))
    IN  [doc |-> reg.doc, rt |-> RichText(url, reg.url_id)]

(***************************************************************************)
(* template_renderer.py                                                    *)
(***************************************************************************)

\* `if profile:` is false for None and for a mapping without keys
profile_given(p) == p.some /\ p.val # EmptyDict

\* as email_step, building the hyperlink whatever the string
email_step_always(d, email_str) == create_email_hyperlink(d, email_str)

\* `if email_str:` -- the email field of the context and the document after
\* the optional registration
email_step(d, email_str) ==
    IF truthy(email_str)
    THEN create_email_hyperlink(d, email_str)
    ELSE [doc |-> d, rt |-> Str(email_str)]

\* `if linkedin_url_str:`
linkedin_step(d, linkedin_url_str) ==
    IF truthy(linkedin_url_str)
    THEN create_url_hyperlink(d, linkedin_url_str)
    ELSE [doc |-> d, rt |-> Str(linkedin_url_str)]

\* as earlier_experience_step, never testing showSection
earlier_experience_step_ignores_show(p, earlier_work) ==
    IF profile_given(p)
    THEN [earlier_experiences |-> earlier_work,
          earlier_experience_mode |->
              get_earlier_experience_settings(p.val).defaultMode]
    ELSE [earlier_experiences |-> earlier_work,
          earlier_experience_mode |-> "detailed"]

\* as earlier_experience_step, with "list-only" when no profile is given
earlier_experience_step_default_list_only(p, earlier_work) ==
    IF profile_given(p)
    THEN LET earlier_settings == get_earlier_experience_settings(p.val)
         IN  IF truthy(earlier_settings.showSection)
             THEN [earlier_experiences |-> earlier_work,
                   earlier_experience_mode |-> earlier_settings.defaultMode]
             ELSE [earlier_experiences |-> EmptyList,
                   earlier_experience_mode |-> "hidden"]
    ELSE [earlier_experiences |-> earlier_work,
          earlier_experience_mode |-> "list-only"]

\* the earlier_experiences / earlier_experience_mode decision
earlier_experience_step(p, earlier_work) ==
    IF profile_given(p)
    THEN LET earlier_settings == get_earlier_experience_settings(p.val)
         IN  IF truthy(earlier_settings.showSection)
             THEN [earlier_experiences |-> earlier_work,
                   earlier_experience_mode |-> earlier_settings.defaultMode]
             ELSE [earlier_experiences |-> EmptyList,
                   earlier_experience_mode |-> "hidden"]
    ELSE [earlier_experiences |-> earlier_work,
          earlier_experience_mode |-> "detailed"]

\* the profile metadata added at the end
profile_metadata(p) ==
    IF profile_given(p)
    THEN ("profile_name" :> dict_get(p.val, "name", "")) @@
         ("profile_id" :> dict_get(p.val, "profileId", ""))
    ELSE EmptyDict

\* returns the context and the document handle as the call leaves it
prepare_template_context(cv, d, p) ==
    LET header == extract_header_data(cv)
        email_str == header.email
        linkedin_url_str == header.linkedin_url
        e == email_step(d, email_str)
        l == linkedin_step(e.doc, linkedin_url_str)
        work == extract_work_data(cv)
        main_work == work[1]
        earlier_work == work[2]
    IN  [doc |-> l.doc,
         context |->
            [header EXCEPT !.email = e.rt, !.linkedin_url = l.rt] @@
            ("summary" :> extract_summary_data(cv)) @@
            ("work" :> main_work) @@
            earlier_experience_step(p, earlier_work) @@
            ("education" :> extract_education_data(cv)) @@
            ("volunteer" :> extract_volunteer_data(cv)) @@
            ("competencies" :> extract_competencies_data(cv)) @@
            ("languages" :> extract_languages_data(cv)) @@
            profile_metadata(p)]

(***************************************************************************)
(* The master records and rendering profiles explored.  A key that is      *)
(* absent from a mapping is absent from the function's domain.             *)
(***************************************************************************)
Field(k, V) == {k :> v : v \in V}

OptField(k, V) == {EmptyDict} \cup Field(k, V)

Merge2(A, B) == {a @@ b : a \in A, b \in B}

\* basics.profiles entries, email
ProfileEntries ==
    Merge2(OptField("network", {"LinkedIn", "linkedin", "GitHub"}),
           OptField("url", {"u1", "u2"}))

LinkBasics ==
    Merge2(OptField("email", {"", "a@x.ch"}),
           OptField("profiles", SeqsUpTo(ProfileEntries, MaxProfiles)))

HeaderLinkRecords == Field("basics", LinkBasics)

\* sparse basics / location / meta._personal
Locations ==
    Merge2(Merge2(OptField("address", {"Street 1"}), OptField("postalCode", {"8000"})),
           Merge2(OptField("city", {"Zurich"}), OptField("country", {"CH"})))

SparseBasics ==
    Merge2(Merge2(OptField("name", {"Ann"}), OptField("phone", {"+41"})),
           OptField("location", Locations))

Personals ==
    Merge2(Merge2(OptField("nationality", {"Swiss"}), OptField("birth_date", {"1980"})),
           Merge2(OptField("marital_status", {"married"}), OptField("children", {0, 2})))

HeaderSparseRecords ==
    OptField("basics", SparseBasics) \cup
    Field("meta", OptField("_personal", Personals))

SummaryRecords == Field("summaries", OptField("default", {"", "Summary"}))

\* work entries: the split, and sparse entries with highlight lists
WorkSplitEntries ==
    Merge2(Field("company", {"A", "B"}),
           Merge2(OptField("isEarlierExperience", {"false", "true"}),
                  OptField("earlierExperienceGroup", {"G1"})))

WorkSplitRecords == Field("work", SeqsUpTo(WorkSplitEntries, MaxWork))

\* the work lists paired with every profile
WorkFlagEntries ==
    Merge2(Field("company", {"A", "B"}),
           Field("isEarlierExperience", {"false", "true"}))

WorkFlagRecords == Field("work", SeqsUpTo(WorkFlagEntries, MaxWork))

HighlightObjects == OptField("text", {"h1", "h2"})

WorkHighlightEntries ==
    Merge2(OptField("highlights", SeqsUpTo(HighlightObjects, MaxHighlights)),
           OptField("isEarlierExperience", {"false", "true"}))

WorkSparseEntries ==
    Merge2(Merge2(OptField("title", {"Engineer"}), OptField("location", {"Bern"})),
           Merge2(OptField("startDate", {"2001"}),
                  Merge2(OptField("endDate", {"2005"}),
                         OptField("isEarlierExperience", {"true"}))))

WorkSparseRecords ==
    Field("work", {<<e>> : e \in WorkHighlightEntries \cup WorkSparseEntries})

\* education and languages
EducationEntries ==
    Merge2(Merge2(OptField("institution", {"ETH"}), OptField("studyType", {"Ph.D."})),
           Merge2(OptField("area", {"Physics"}), OptField("endDate", {"2000"})))

LanguageEntries ==
    Merge2(OptField("language", {"German"}),
           Merge2(OptField("fluency", {"Native"}), OptField("certificationLevel", {"C2"})))

MaxEntries == 1

ListRecords ==
    Field("education", SeqsUpTo(EducationEntries, MaxEntries)) \cup
    Field("languages", SeqsUpTo(LanguageEntries, MaxEntries))

\* volunteer entries: title / position, and sparse entries
VolunteerTitleEntries ==
    Merge2(OptField("title", {"", "Coach"}), OptField("position", {"", "Treasurer"}))

VolunteerSparseEntries ==
    Merge2(Merge2(OptField("organization", {"Club"}), OptField("summary", {"Helped"})),
           Merge2(OptField("startDate", {"2010"}),
                  Merge2(OptField("endDate", {"2012"}),
                         OptField("highlights", {<<>>, <<"v1", "v2">>}))))

VolunteerRecords ==
    Field("volunteer", SeqsUpTo(VolunteerTitleEntries, MaxVolunteer)) \cup
    Field("volunteer", {<<e>> : e \in VolunteerSparseEntries})

\* competencies: database records, categories, standardSet.competencyIds
Python == [id |-> "c1", name |-> "Python", categoryId |-> "k1"]

Sql == [id |-> "c2", name |-> "SQL", categoryId |-> "k2"]

Perl == [id |-> "c1", name |-> "Perl", categoryId |-> "k9"]

Databases ==
    { <<>>,
      <<Python>>,
      <<Python, Sql>>,
      <<Sql, Python>>,
      <<Python, Perl>>,
      <<Perl, Python, Sql>>,
      <<[id |-> "c2"]>>,
      <<[name |-> "Nameless"], [id |-> "c1", categoryId |-> "k2"], Sql>> }

CategoryLists ==
    { <<>>,
      <<[id |-> "k1", name |-> "Languages"]>>,
      <<[id |-> "k2", name |-> "Data"], [id |-> "k1", name |-> "Languages"]>>,
      <<[id |-> "k1", name |-> "Languages"], [id |-> "k1", name |-> "Scripting"]>>,
      <<[id |-> "k2"], [name |-> "Orphan"]>> }

CompetencyIds == {"c1", "c2", "c3"}

CompetencySections ==
    Merge2(OptField("database", Databases),
           Merge2(OptField("categories", CategoryLists),
                  OptField("standardSet",
                           OptField("competencyIds",
                                    SeqsUpTo(CompetencyIds, MaxIds)))))

CompetencyRecords == Field("competencies", CompetencySections)

\* rendering profiles
EarlierExperienceDisplays ==
    Merge2(OptField("showSection", {"true", "false"}),
           OptField("defaultMode", {"detailed", "list-only"}))

ProfileDicts ==
    Merge2(Merge2(OptField("name", {"Balanced"}), OptField("profileId", {"balanced"})),
           {EmptyDict}) \cup
    Merge2({EmptyDict, [name |-> "Balanced", profileId |-> "balanced"]},
           Field("earlierExperienceDisplay", EarlierExperienceDisplays))

Profiles == {None} \cup {Some(p) : p \in ProfileDicts}

FullProfile ==
    Some([name |-> "Balanced", profileId |-> "balanced",
          earlierExperienceDisplay |-> [showSection |-> "true",
                                        defaultMode |-> "list-only"]])

\* the (record, profile) pairs a run starts from
Inputs ==
    {[cv |-> r, profile |-> p] : r \in WorkFlagRecords, p \in Profiles} \cup
    {[cv |-> r, profile |-> FullProfile] : r \in HeaderSparseRecords} \cup
    {[cv |-> r, profile |-> None] :
        r \in WorkSplitRecords \cup HeaderLinkRecords \cup HeaderSparseRecords \cup SummaryRecords \cup WorkSparseRecords \cup
              ListRecords \cup VolunteerRecords \cup CompetencyRecords}

(***************************************************************************)
(* The state machine: a record and a profile are loaded, then the          *)
(* functions are called on them in any order.  op is the function called   *)
(* last, ret its return value, exc the exception it raised ("none" when it *)
(* returned), doc the document handle of the last context assembly.        *)
(***************************************************************************)
NoValue == <<>>

\* no call of fill_template under way
FillIdle == [pc |-> "idle", steps |-> <<>>, profile_path |-> "",
             structure |-> "valid", failed_at |-> "none", saved |-> FALSE]

\* the application window after __init__, no thread started
GuiInit == [is_generating |-> FALSE, generate_btn |-> "normal",
            status_var |-> "Ready", master_cv_path |-> "",
            template_path |-> "", output_path |-> "",
            threads |-> <<>>, after_queue |-> <<>>, dialog |-> "none",
            callback_error |-> "none"]

Init ==
    /\ \E in \in Inputs : cv_data = in.cv /\ profile = in.profile
    /\ op = "init"
    /\ ret = NoValue
    /\ exc = "none"
    /\ doc = <<>>
    /\ fill = FillIdle
    /\ gui = GuiInit

Returns(name, value) ==
    /\ op' = name
    /\ ret' = value
    /\ exc' = "none"
    /\ UNCHANGED <<cv_data, profile, doc, fill, gui>>

ExtractHeader == Returns("extract_header_data", extract_header_data(cv_data))

ExtractSummary == Returns("extract_summary_data", extract_summary_data(cv_data))

ExtractWork == Returns("extract_work_data", extract_work_data(cv_data))

ExtractEducation == Returns("extract_education_data", extract_education_data(cv_data))

ExtractVolunteer == Returns("extract_volunteer_data", extract_volunteer_data(cv_data))

ExtractCompetencies ==
    /\ op' = "extract_competencies_data"
    /\ IF extract_competencies_raises(cv_data)
       THEN ret' = NoValue /\ exc' = "KeyError"
       ELSE ret' = extract_competencies_data(cv_data) /\ exc' = "none"
    /\ UNCHANGED <<cv_data, profile, doc, fill, gui>>

ExtractLanguages == Returns("extract_languages_data", extract_languages_data(cv_data))

\* called on a loaded profile mapping
GetEarlierExperienceSettings ==
    /\ profile.some
    /\ Returns("get_earlier_experience_settings",
               get_earlier_experience_settings(profile.val))

\* as PrepareTemplateContext, on the handle left by the previous call
PrepareTemplateContext_carries_doc ==
    /\ op' = "prepare_template_context"
    /\ IF extract_competencies_raises(cv_data)
       THEN ret' = NoValue /\ exc' = "KeyError" /\ doc' = doc
       ELSE LET r == prepare_template_context(cv_data, doc, profile)
            IN  ret' = r.context /\ exc' = "none" /\ doc' = r.doc
    /\ UNCHANGED <<cv_data, profile, fill, gui>>

\* called with a new document handle, as fill_template does
PrepareTemplateContext ==
    /\ op' = "prepare_template_context"
    /\ IF extract_competencies_raises(cv_data)
       THEN ret' = NoValue /\ exc' = "KeyError" /\ doc' = <<>>
       ELSE LET r == prepare_template_context(cv_data, <<>>, profile)
            IN  ret' = r.context /\ exc' = "none" /\ doc' = r.doc
    /\ UNCHANGED <<cv_data, profile, fill, gui>>

Next ==
    \/ ExtractHeader
    \/ ExtractSummary
    \/ ExtractWork
    \/ ExtractEducation
    \/ ExtractVolunteer
    \/ ExtractCompetencies
    \/ ExtractLanguages
    \/ GetEarlierExperienceSettings
    \/ PrepareTemplateContext

Spec == Init /\ [][Next]_vars

(***************************************************************************)
(* The same calls on records whose isEarlierExperience is any JSON value,  *)
(* written as its literal: booleans, null, numbers, a string, a list.      *)
(***************************************************************************)
FlagLiterals == {"false", "true", "null", "0", "1", "\"yes\"", "[\"x\"]"}

WorkUntypedEntries ==
    Merge2(Field("company", {"A", "B"}), OptField("isEarlierExperience", FlagLiterals))

WorkUntypedRecords == Field("work", SeqsUpTo(WorkUntypedEntries, MaxWork))

InitUntyped ==
    /\ cv_data \in WorkUntypedRecords
    /\ profile \in {None, FullProfile}
    /\ op = "init"
    /\ ret = NoValue
    /\ exc = "none"
    /\ doc = <<>>
    /\ fill = FillIdle
    /\ gui = GuiInit

SpecUntyped == InitUntyped /\ [][Next]_vars

(***************************************************************************)
(* fill_template, statement by statement.  The file system and the         *)
(* template engine are the environment: whether the template and the       *)
(* profile file exist, what the profile file holds, whether rendering and  *)
(* writing succeed.  fill.steps lists the steps attempted so far,          *)
(* fill.failed_at the step that raised, fill.saved whether the output      *)
(* document was written.  fill.structure tells whether every section of    *)
(* the record passed has the JSON type the extractors read it as; when it  *)
(* has not ("invalid": basics an array, an education entry a string, ...)  *)
(* the first .get on the wrong-typed value raises AttributeError and the   *)
(* content of cv_data is not looked at.                                    *)
(***************************************************************************)
FillRecords == WorkFlagRecords \cup SummaryRecords

InitFill ==
    /\ cv_data \in FillRecords
    /\ profile = None
    /\ op = "init"
    /\ ret = NoValue
    /\ exc = "none"
    /\ doc = <<>>
    /\ fill = FillIdle
    /\ gui = GuiInit

\* the step named step completed; control moves to next
Completes(step, next) ==
    fill' = [fill EXCEPT !.pc = next, !.steps = Append(@, step)]

\* the step named step raised error, which leaves fill_template
Raises(step, error) ==
    /\ fill' = [fill EXCEPT !.pc = "raised", !.steps = Append(@, step),
                            !.failed_at = step]
    /\ exc' = error

\* the call, with or without a profile path
FillTemplate ==
    /\ fill.pc = "idle"
    /\ \E profile_path \in {"", "profile.json"}, structure \in {"valid", "invalid"} :
          fill' = [fill EXCEPT !.pc = "load_template",
                               !.profile_path = profile_path,
                               !.structure = structure]
    /\ UNCHANGED <<cv_data, profile, op, ret, exc, doc, gui>>

\* doc = DocxTemplate(template_path)
LoadTemplate ==
    /\ fill.pc = "load_template"
    /\ \E found \in BOOLEAN :
          IF found
          THEN /\ Completes("load_template",
                            IF fill.profile_path # "" THEN "load_profile"
                                                      ELSE "prepare_context")
               /\ doc' = <<>>
               /\ exc' = exc
          ELSE /\ Raises("load_template", "FileNotFoundError")
               /\ doc' = doc
    /\ UNCHANGED <<cv_data, profile, op, ret, gui>>

\* profile = load_rendering_profile(profile_path)
LoadProfile ==
    /\ fill.pc = "load_profile"
    /\ \E outcome \in {"loaded", "FileNotFoundError", "JSONDecodeError"} :
          IF outcome = "loaded"
          THEN /\ Completes("load_profile", "prepare_context")
               /\ \E p \in ProfileDicts : profile' = Some(p)
               /\ exc' = exc
          ELSE /\ Raises("load_profile", outcome)
               /\ profile' = profile
    /\ UNCHANGED <<cv_data, op, ret, doc, gui>>

\* context = prepare_template_context(cv_data, doc, profile)
PrepareContext ==
    /\ fill.pc = "prepare_context"
    /\ IF fill.structure = "invalid"
       THEN /\ Raises("prepare_context", "AttributeError")
            /\ UNCHANGED <<ret, doc>>
       ELSE LET r == prepare_template_context(cv_data, doc, profile)
            IN  /\ Completes("prepare_context", "render")
                /\ ret' = r.context
                /\ doc' = r.doc
                /\ exc' = exc
    /\ UNCHANGED <<cv_data, profile, op, gui>>

\* as Render, going on to the save step when rendering raised
Render_continues ==
    /\ fill.pc = "render"
    /\ \E rendered \in BOOLEAN :
          IF rendered
          THEN Completes("render", "save") /\ exc' = exc
          ELSE /\ fill' = [fill EXCEPT !.pc = "save", !.steps = Append(@, "render"),
                                       !.failed_at = "render"]
               /\ exc' = "TemplateError"
    /\ UNCHANGED <<cv_data, profile, op, ret, doc, gui>>

\* doc.render(context, autoescape=True)
Render ==
    /\ fill.pc = "render"
    /\ \E rendered \in BOOLEAN :
          IF rendered
          THEN Completes("render", "save") /\ exc' = exc
          ELSE Raises("render", "TemplateError")
    /\ UNCHANGED <<cv_data, profile, op, ret, doc, gui>>

\* doc.save(output_path)
Save ==
    /\ fill.pc = "save"
    /\ \E writable \in BOOLEAN :
          IF writable
          THEN /\ fill' = [fill EXCEPT !.pc = "returned", !.steps = Append(@, "save"),
                                       !.saved = TRUE]
               /\ exc' = exc
          ELSE Raises("save", "PermissionError")
    /\ UNCHANGED <<cv_data, profile, op, ret, doc, gui>>

NextFill ==
    \/ FillTemplate
    \/ LoadTemplate
    \/ LoadProfile
    \/ PrepareContext
    \/ Render
    \/ Save

SpecFill == InitFill /\ [][NextFill]_vars

(***************************************************************************)
(* The Tkinter application.  The handlers of the main thread (browse       *)
(* buttons, Generate button, callbacks queued with root.after) run one at  *)
(* a time, each to its end; a background thread runs _do_generate          *)
(* statement by statement, interleaved with them.                          *)
(*   gui.threads      the background threads alive, each with an id and    *)
(*                    the position it has reached in _do_generate;         *)
(*   gui.after_queue  the callbacks passed to root.after and not yet run;  *)
(*   gui.dialog       the message box shown last;                          *)
(*   gui.callback_error  the exception a queued callback raised last.      *)
(* op is the handler or statement executed last.  The calls of self.log    *)
(* are taken to return normally.  The master record, the profile and the   *)
(* template are the environment of _do_generate: loading and               *)
(* fill_template succeed, raise FileNotFoundError or raise something else. *)
(***************************************************************************)
InitGui ==
    /\ cv_data = EmptyDict
    /\ profile = None
    /\ op = "init"
    /\ ret = NoValue
    /\ exc = "none"
    /\ doc = <<>>
    /\ fill = FillIdle
    /\ gui = GuiInit

\* a handler or statement named name ran and left the window as g
GuiStep(name, g) ==
    /\ op' = name
    /\ gui' = g
    /\ UNCHANGED <<cv_data, profile, ret, exc, doc, fill>>

\* filepath is "" when the file dialog was cancelled
BrowseMasterCv ==
    \E filepath \in {"", "master_cv.json"} :
        GuiStep("_browse_master_cv",
                IF filepath # "" THEN [gui EXCEPT !.master_cv_path = filepath] ELSE gui)

BrowseTemplate ==
    \E filepath \in {"", "template.docx"} :
        GuiStep("_browse_template",
                IF filepath # "" THEN [gui EXCEPT !.template_path = filepath] ELSE gui)

BrowseOutput ==
    \E filepath \in {"", "out.docx"} :
        GuiStep("_browse_output",
                IF filepath # "" THEN [gui EXCEPT !.output_path = filepath] ELSE gui)

_validate_inputs(g) ==
    g.master_cv_path # "" /\ g.template_path # "" /\ g.output_path # ""

\* identities in use by a thread or by a queued callback
UsedIds(g) ==
    {g.threads[i].id : i \in 1..Len(g.threads)} \cup
    {g.after_queue[i].thread : i \in 1..Len(g.after_queue)}

NewId(g) == CHOOSE i \in 1..(Cardinality(UsedIds(g)) + 1) : i \notin UsedIds(g)

\* threading.Thread(target=self._do_generate, daemon=True).start()
StartThread(g) ==
    [g EXCEPT !.threads = Append(@, [id |-> NewId(g), pc |-> "load_master_cv"])]

\* as GenerateCv, without the test of is_generating
GenerateCv_unguarded ==
    IF ~ _validate_inputs(gui)
    THEN GuiStep("_generate_cv", [gui EXCEPT !.dialog = "Missing Input"])
    ELSE /\ Len(gui.threads) < MaxThreads
         /\ GuiStep("_generate_cv",
                    StartThread([gui EXCEPT !.is_generating = TRUE,
                                            !.generate_btn = "disabled",
                                            !.status_var = "Generating..."]))

\* the handler of the Generate button
GenerateCv ==
    IF gui.is_generating
    THEN GuiStep("_generate_cv", gui)
    ELSE IF ~ _validate_inputs(gui)
         THEN GuiStep("_generate_cv", [gui EXCEPT !.dialog = "Missing Input"])
         ELSE /\ Len(gui.threads) < MaxThreads
              /\ GuiStep("_generate_cv",
                         StartThread([gui EXCEPT !.is_generating = TRUE,
                                                 !.generate_btn = "disabled",
                                                 !.status_var = "Generating..."]))

\* thread i moves to position pc
Goto(i, pc) == [gui EXCEPT !.threads[i].pc = pc]

\* the position of the handler that catches error
HandlerOf(error) == IF error = "FileNotFoundError" THEN "file_not_found" ELSE "other_error"

\* cv_data = load_master_cv(self.master_cv_path.get())
DoGenerateLoad ==
    \E i \in 1..Len(gui.threads) :
        /\ gui.threads[i].pc = "load_master_cv"
        /\ \E outcome \in {"loaded", "FileNotFoundError", "JSONDecodeError"} :
              GuiStep("load_master_cv",
                      Goto(i, IF outcome = "loaded" THEN "profile_path"
                                                    ELSE HandlerOf(outcome)))

\* step 2, the path of the selected profile
DoGenerateProfilePath ==
    \E i \in 1..Len(gui.threads) :
        /\ gui.threads[i].pc = "profile_path"
        /\ GuiStep("profile_path", Goto(i, "fill_template"))

\* step 3, fill_template(...)
DoGenerateFill ==
    \E i \in 1..Len(gui.threads) :
        /\ gui.threads[i].pc = "fill_template"
        /\ \E outcome \in {"filled", "FileNotFoundError", "PermissionError"} :
              GuiStep("fill_template",
                      Goto(i, IF outcome = "filled" THEN "success"
                                                    ELSE HandlerOf(outcome)))

\* self.root.after(0, callback) by thread i, which goes on at position pc
After(i, callback, pc) ==
    [gui EXCEPT !.after_queue = Append(@, callback), !.threads[i].pc = pc]

\* self.root.after(0, lambda: self._generation_complete(True))
DoGenerateSuccess ==
    \E i \in 1..Len(gui.threads) :
        /\ gui.threads[i].pc = "success"
        /\ GuiStep("after_success",
                   After(i, [thread |-> gui.threads[i].id, success |-> TRUE,
                             error_msg |-> "none"], "return"))

\* except FileNotFoundError as e: the callback evaluates str(e) when it runs;
\* the thread is still inside the except clause after the call
DoGenerateFileNotFound ==
    \E i \in 1..Len(gui.threads) :
        /\ gui.threads[i].pc = "file_not_found"
        /\ GuiStep("after_file_not_found",
                   After(i, [thread |-> gui.threads[i].id, success |-> FALSE,
                             error_msg |-> "str(e)"], "leave_except"))

\* except Exception as e: error_msg is computed before the call
DoGenerateOtherError ==
    \E i \in 1..Len(gui.threads) :
        /\ gui.threads[i].pc = "other_error"
        /\ GuiStep("after_other_error",
                   After(i, [thread |-> gui.threads[i].id, success |-> FALSE,
                             error_msg |-> "error_msg"], "return"))

\* the end of the clause "except FileNotFoundError as e" deletes e
DoGenerateLeaveExcept ==
    \E i \in 1..Len(gui.threads) :
        /\ gui.threads[i].pc = "leave_except"
        /\ GuiStep("leave_except", Goto(i, "return"))

\* _do_generate returns and the thread ends
DoGenerateReturn ==
    \E i \in 1..Len(gui.threads) :
        /\ gui.threads[i].pc = "return"
        /\ GuiStep("return",
                   [gui EXCEPT !.threads =
                       SubSeq(@, 1, i - 1) \o SubSeq(@, i + 1, Len(@))])

\* e of the thread identified by id is bound: the thread is still inside its
\* except clause
e_bound(g, id) ==
    \E i \in 1..Len(g.threads) :
        g.threads[i].id = id /\ g.threads[i].pc = "leave_except"

\* def _generation_complete(self, success, error_msg=None)
_generation_complete(g, success) ==
    [g EXCEPT !.is_generating = FALSE,
              !.generate_btn = "normal",
              !.status_var = IF success THEN "Done!" ELSE "Error",
              !.dialog = IF success THEN "Success" ELSE "Generation Failed"]

\* the main loop runs the callback queued first; evaluating str(e) raises
\* NameError when e is no longer bound, and then _generation_complete is not
\* called
RunCallback ==
    /\ gui.after_queue # <<>>
    /\ LET callback == Head(gui.after_queue)
           g == [gui EXCEPT !.after_queue = Tail(@)]
       IN  IF callback.error_msg = "str(e)" /\ ~ e_bound(gui, callback.thread)
           THEN GuiStep("callback", [g EXCEPT !.callback_error = "NameError"])
           ELSE GuiStep("_generation_complete",
                        _generation_complete(g, callback.success))

NextGui ==
    \/ BrowseMasterCv
    \/ BrowseTemplate
    \/ BrowseOutput
    \/ GenerateCv
    \/ DoGenerateLoad
    \/ DoGenerateProfilePath
    \/ DoGenerateFill
    \/ DoGenerateSuccess
    \/ DoGenerateFileNotFound
    \/ DoGenerateOtherError
    \/ DoGenerateLeaveExcept
    \/ DoGenerateReturn
    \/ RunCallback

SpecGui == InitGui /\ [][NextGui]_vars

TypeOK ==
    /\ op \in {"init", "extract_header_data", "extract_summary_data",
               "extract_work_data", "extract_education_data",
               "extract_volunteer_data", "extract_competencies_data",
               "extract_languages_data", "get_earlier_experience_settings",
               "prepare_template_context"}
    /\ exc \in {"none", "KeyError"}

(***************************************************************************)
(* What the properties below read from the inputs, written from the shape  *)
(* of the record and the profile, not with the operators of the model.     *)
(***************************************************************************)
Called(name) == op = name /\ exc = "none"

Present(d, k) == k \in DOMAIN d

\* the value of showSection / defaultMode in a profile mapping, "absent"
\* when the key or the whole earlierExperienceDisplay subsection is missing
DisplaySetting(p, k) ==
    IF Present(p, "earlierExperienceDisplay") /\ Present(p.earlierExperienceDisplay, k)
    THEN p.earlierExperienceDisplay[k]
    ELSE "absent"

WorkOf(cv) == IF Present(cv, "work") THEN cv.work ELSE <<>>

\* indices of the work entries flagged isEarlierExperience = true
EarlierIdx(w) ==
    {i \in 1..Len(w) :
        Present(w[i], "isEarlierExperience") /\ w[i].isEarlierExperience = "true"}

MainIdx(w) == (1..Len(w)) \ EarlierIdx(w)

\* position of index i among the indices of S, in increasing order
Rank(i, S) == Cardinality({j \in S : j <= i})

(***************************************************************************)
(* C1: when the supplied profile has earlierExperienceDisplay.showSection  *)
(* false, the context returned by prepare_template_context has             *)
(* earlier_experiences empty and earlier_experience_mode "hidden",         *)
(* whatever defaultMode is and however many EarlierWork entries exist.     *)
(***************************************************************************)
C1_HiddenWhenShowSectionFalse ==
    (/\ Called("prepare_template_context")
     /\ profile.some
     /\ DisplaySetting(profile.val, "showSection") = "false")
    => /\ ret.earlier_experiences = <<>>
       /\ ret.earlier_experience_mode = "hidden"

C1_Witness ==
    /\ Called("prepare_template_context")
    /\ profile.some
    /\ DisplaySetting(profile.val, "showSection") = "false"
    /\ DisplaySetting(profile.val, "defaultMode") = "list-only"
    /\ EarlierIdx(WorkOf(cv_data)) # {}
    /\ ret.earlier_experiences = <<>>
    /\ ret.earlier_experience_mode = "hidden"

(***************************************************************************)
(* C2: when the supplied profile has showSection true, explicitly or by    *)
(* default (showSection or the whole subsection absent), the context's     *)
(* earlier_experiences is the complete EarlierWork sequence of             *)
(* extract_work_data, one entry per flagged work entry, and                *)
(* earlier_experience_mode is the profile's defaultMode, "detailed" when   *)
(* defaultMode is absent.                                                  *)
(***************************************************************************)
C2_ShownWhenShowSectionTrue ==
    (/\ Called("prepare_template_context")
     /\ profile.some
     /\ DisplaySetting(profile.val, "showSection") \in {"true", "absent"})
    => /\ ret.earlier_experiences = extract_work_data(cv_data)[2]
       /\ Len(ret.earlier_experiences) = Cardinality(EarlierIdx(WorkOf(cv_data)))
       /\ ret.earlier_experience_mode =
            IF DisplaySetting(profile.val, "defaultMode") = "absent"
            THEN "detailed"
            ELSE DisplaySetting(profile.val, "defaultMode")

C2_Witness ==
    /\ Called("prepare_template_context")
    /\ profile.some
    /\ Present(profile.val, "earlierExperienceDisplay")
    /\ DisplaySetting(profile.val, "showSection") = "absent"
    /\ DisplaySetting(profile.val, "defaultMode") = "list-only"
    /\ Cardinality(EarlierIdx(WorkOf(cv_data))) >= 2
    /\ Len(ret.earlier_experiences) >= 2
    /\ ret.earlier_experience_mode = "list-only"

(***************************************************************************)
(* C3: prepare_template_context called with no profile gives the same      *)
(* earlier_experiences and earlier_experience_mode as a call with a        *)
(* profile {showSection: true, defaultMode: "detailed"}: every EarlierWork *)
(* entry is shown and the mode is "detailed".                              *)
(***************************************************************************)
ExplicitDefaultProfile ==
    Some([earlierExperienceDisplay |->
              [showSection |-> "true", defaultMode |-> "detailed"]])

C3_NoProfileIsShowDetailed ==
    (Called("prepare_template_context") /\ ~ profile.some)
    => LET other == prepare_template_context(cv_data, <<>>,
                                             ExplicitDefaultProfile).context
       IN  /\ ret.earlier_experiences = other.earlier_experiences
           /\ ret.earlier_experience_mode = other.earlier_experience_mode
           /\ Len(ret.earlier_experiences) = Cardinality(EarlierIdx(WorkOf(cv_data)))
           /\ ret.earlier_experience_mode = "detailed"

C3_Witness ==
    /\ Called("prepare_template_context")
    /\ ~ profile.some
    /\ EarlierIdx(WorkOf(cv_data)) # {}
    /\ Len(ret.earlier_experiences) >= 1
    /\ ret.earlier_experience_mode = "detailed"

(***************************************************************************)
(* C4: extract_work_data partitions the work sequence: each entry flagged  *)
(* isEarlierExperience = true is in EarlierWork with its                   *)
(* earlierExperienceGroup ("" when absent), each other entry is in         *)
(* MainWork, each group keeps the source order, and the two lengths add up *)
(* to the number of source entries.                                        *)
(***************************************************************************)
StrOr(d, k) == IF Present(d, k) THEN d[k] ELSE ""

PositionFields == {"company", "title", "location", "startDate", "endDate"}

C4_WorkPartition ==
    Called("extract_work_data")
    => LET w == WorkOf(cv_data)
           main == ret[1]
           earlier == ret[2]
       IN  /\ Len(main) + Len(earlier) = Len(w)
           /\ Len(earlier) = Cardinality(EarlierIdx(w))
           /\ Len(main) = Cardinality(MainIdx(w))
           /\ \A i \in EarlierIdx(w) :
                LET pos == earlier[Rank(i, EarlierIdx(w))]
                IN  /\ \A k \in PositionFields : pos[k] = StrOr(w[i], k)
                    /\ pos.earlierExperienceGroup = StrOr(w[i], "earlierExperienceGroup")
           /\ \A i \in MainIdx(w) :
                LET pos == main[Rank(i, MainIdx(w))]
                IN  \A k \in PositionFields : pos[k] = StrOr(w[i], k)

C4_Witness ==
    /\ Called("extract_work_data")
    /\ Len(WorkOf(cv_data)) >= 2
    /\ Len(ret[2]) >= 2
    /\ ret[2][1].company # ret[2][2].company
    /\ ret[2][1].earlierExperienceGroup # ret[2][2].earlierExperienceGroup

(***************************************************************************)
(* C5: extract_competencies_data returns the sequence obtained by walking  *)
(* standardSet.competencyIds in order, dropping the identifiers without a  *)
(* database record, and mapping each other identifier to the name of its   *)
(* record and the name of the category with the record's categoryId ("" if *)
(* there is none); a repeated identifier is emitted once per occurrence.   *)
(* When several records, or categories, share an id it is the last one.    *)
(***************************************************************************)
CompetenciesOf(cv) == IF Present(cv, "competencies") THEN cv.competencies ELSE <<>>

DatabaseOf(cv) ==
    IF Present(CompetenciesOf(cv), "database") THEN CompetenciesOf(cv).database ELSE <<>>

CategoriesOf(cv) ==
    IF Present(CompetenciesOf(cv), "categories") THEN CompetenciesOf(cv).categories ELSE <<>>

SelectedIdsOf(cv) ==
    IF /\ Present(CompetenciesOf(cv), "standardSet")
       /\ Present(CompetenciesOf(cv).standardSet, "competencyIds")
    THEN CompetenciesOf(cv).standardSet.competencyIds
    ELSE <<>>

Largest(S) == CHOOSE x \in S : \A y \in S : y <= x

Smallest(S) == CHOOSE x \in S : \A y \in S : x <= y

\* indices of the entries of list whose id (or "" by default) is id
WithId(list, id) == {j \in 1..Len(list) : StrOr(list[j], "id") = id}

CategoryName(cats, k) ==
    IF WithId(cats, k) = {} THEN "" ELSE StrOr(cats[Largest(WithId(cats, k))], "name")

\* indices of the selected identifiers that have a database record
KeptIdx(cv) ==
    {i \in 1..Len(SelectedIdsOf(cv)) : WithId(DatabaseOf(cv), SelectedIdsOf(cv)[i]) # {}}

C5_CompetencyJoin ==
    Called("extract_competencies_data")
    => LET db == DatabaseOf(cv_data)
           ids == SelectedIdsOf(cv_data)
       IN  /\ Len(ret) = Cardinality(KeptIdx(cv_data))
           /\ \A i \in KeptIdx(cv_data) :
                LET rec == db[Largest(WithId(db, ids[i]))]
                IN  ret[Rank(i, KeptIdx(cv_data))] =
                        [name |-> StrOr(rec, "name"),
                         category |-> CategoryName(CategoriesOf(cv_data),
                                                   StrOr(rec, "categoryId"))]

\* the database lists c1 before c2, the selection c2 before c1
C5_Witness ==
    /\ Called("extract_competencies_data")
    /\ SelectedIdsOf(cv_data) = <<"c2", "c1">>
    /\ Len(DatabaseOf(cv_data)) = 2
    /\ DatabaseOf(cv_data)[1] = [id |-> "c1", name |-> "Python", categoryId |-> "k1"]
    /\ ret = <<[name |-> "SQL", category |-> "Data"],
               [name |-> "Python", category |-> "Languages"]>>

(***************************************************************************)
(* C6: extract_header_data sets linkedin_url to the url of the first entry *)
(* of basics.profiles whose network is "linkedin" in any letter case, and  *)
(* to "" when no entry matches; a later matching entry never overrides it. *)
(***************************************************************************)
BasicsOf(cv) == IF Present(cv, "basics") THEN cv.basics ELSE <<>>

ProfilesOf(cv) == IF Present(BasicsOf(cv), "profiles") THEN BasicsOf(cv).profiles ELSE <<>>

LinkedInSpellings == {"linkedin", "LinkedIn", "LINKEDIN"}

LinkedInIdx(ps) ==
    {i \in 1..Len(ps) : Present(ps[i], "network") /\ ps[i].network \in LinkedInSpellings}

FirstLinkedInUrl(cv) ==
    IF LinkedInIdx(ProfilesOf(cv)) = {} THEN ""
    ELSE StrOr(ProfilesOf(cv)[Smallest(LinkedInIdx(ProfilesOf(cv)))], "url")

C6_FirstLinkedInWins ==
    Called("extract_header_data") => ret.linkedin_url = FirstLinkedInUrl(cv_data)

C6_Witness ==
    /\ Called("extract_header_data")
    /\ Cardinality(LinkedInIdx(ProfilesOf(cv_data))) >= 2
    /\ ProfilesOf(cv_data)[1].network = "LinkedIn"
    /\ ProfilesOf(cv_data)[2].network = "linkedin"
    /\ StrOr(ProfilesOf(cv_data)[1], "url") = "u1"
    /\ StrOr(ProfilesOf(cv_data)[2], "url") = "u2"
    /\ ret.linkedin_url = "u1"

(***************************************************************************)
(* C7: every extraction function returns normally on a sparse record, and  *)
(* each field whose key (or whose whole section) is missing takes its      *)
(* default: "" for strings, the empty sequence for sequences, 0 for        *)
(* children, false for isEarlierExperience.                                *)
(***************************************************************************)
ExtractionFunctions ==
    {"extract_header_data", "extract_summary_data", "extract_work_data",
     "extract_education_data", "extract_volunteer_data",
     "extract_competencies_data", "extract_languages_data"}

SectionOf(d, k) == IF Present(d, k) THEN d[k] ELSE <<>>

\* ret is a list parallel to entries, with "" for each missing key of keys
ListDefaults(entries, keys) ==
    /\ Len(ret) = Len(entries)
    /\ \A i \in 1..Len(entries) :
         \A k \in keys : ~ Present(entries[i], k) => ret[i][k] = ""

HeaderDefaults ==
    LET basics == BasicsOf(cv_data)
        location == SectionOf(basics, "location")
        personal == SectionOf(SectionOf(cv_data, "meta"), "_personal")
    IN  /\ \A k \in {"name", "phone", "email"} :
             ~ Present(basics, k) => ret[k] = ""
        /\ \A k \in {"address", "postalCode", "city", "country"} :
             ~ Present(location, k) => ret[k] = ""
        /\ \A k \in {"nationality", "birth_date", "marital_status"} :
             ~ Present(personal, k) => ret[k] = ""
        /\ ~ Present(personal, "children") => ret.children = 0
        /\ ~ Present(basics, "profiles") => ret.linkedin_url = ""

SummaryDefaults ==
    ~ Present(SectionOf(cv_data, "summaries"), "default") => ret = ""

WorkDefaults ==
    LET w == WorkOf(cv_data)
    IN  /\ Len(ret[1]) = Cardinality(MainIdx(w))
        /\ Len(ret[2]) = Cardinality(EarlierIdx(w))
        /\ \A i \in 1..Len(w) :
             LET pos == IF i \in EarlierIdx(w)
                        THEN ret[2][Rank(i, EarlierIdx(w))]
                        ELSE ret[1][Rank(i, MainIdx(w))]
             IN  /\ \A k \in PositionFields : ~ Present(w[i], k) => pos[k] = ""
                 /\ ~ Present(w[i], "highlights") => pos.highlights = <<>>
                 /\ \A h \in 1..Len(SectionOf(w[i], "highlights")) :
                      ~ Present(w[i].highlights[h], "text") => pos.highlights[h] = ""
                 /\ (i \in EarlierIdx(w) /\ ~ Present(w[i], "earlierExperienceGroup"))
                      => pos.earlierExperienceGroup = ""

VolunteerDefaults ==
    LET v == SectionOf(cv_data, "volunteer")
    IN  /\ ListDefaults(v, {"organization", "startDate", "endDate", "summary"})
        /\ \A i \in 1..Len(v) :
             /\ ~ Present(v[i], "highlights") => ret[i].highlights = <<>>
             /\ (~ Present(v[i], "title") /\ ~ Present(v[i], "position"))
                  => ret[i].title = ""

CompetencyDefaults ==
    /\ Len(ret) = Cardinality(KeptIdx(cv_data))
    /\ \A i \in KeptIdx(cv_data) :
         LET db == DatabaseOf(cv_data)
             rec == db[Largest(WithId(db, SelectedIdsOf(cv_data)[i]))]
             out == ret[Rank(i, KeptIdx(cv_data))]
         IN  /\ ~ Present(rec, "name") => out.name = ""
             /\ ~ Present(CompetenciesOf(cv_data), "categories") => out.category = ""

C7_ExtractionTotal ==
    op \in ExtractionFunctions
    => /\ exc = "none"
       /\ op = "extract_header_data" => HeaderDefaults
       /\ op = "extract_summary_data" => SummaryDefaults
       /\ op = "extract_work_data" => WorkDefaults
       /\ op = "extract_education_data" =>
            ListDefaults(SectionOf(cv_data, "education"),
                         {"institution", "studyType", "area", "endDate"})
       /\ op = "extract_volunteer_data" => VolunteerDefaults
       /\ op = "extract_competencies_data" => CompetencyDefaults
       /\ op = "extract_languages_data" =>
            ListDefaults(SectionOf(cv_data, "languages"),
                         {"language", "fluency", "certificationLevel"})

\* a selected identifier whose database record has neither name nor
\* categoryId, in a record without categories
C7_Witness ==
    /\ Called("extract_competencies_data")
    /\ ~ Present(CompetenciesOf(cv_data), "categories")
    /\ SelectedIdsOf(cv_data) = <<"c2">>
    /\ DatabaseOf(cv_data) = <<[id |-> "c2"]>>
    /\ ret = <<[name |-> "", category |-> ""]>>

(***************************************************************************)
(* C8: extract_volunteer_data sets title to the entry's title when that is *)
(* non-empty, to the entry's position when title is empty or absent and    *)
(* position is non-empty, and to "" when both are empty or absent.         *)
(***************************************************************************)
NonEmpty(d, k) == Present(d, k) /\ d[k] # ""

C8_VolunteerTitle ==
    Called("extract_volunteer_data")
    => LET v == SectionOf(cv_data, "volunteer")
       IN  /\ Len(ret) = Len(v)
           /\ \A i \in 1..Len(v) :
                /\ NonEmpty(v[i], "title") => ret[i].title = v[i].title
                /\ (~ NonEmpty(v[i], "title") /\ NonEmpty(v[i], "position"))
                     => ret[i].title = v[i].position
                /\ (~ NonEmpty(v[i], "title") /\ ~ NonEmpty(v[i], "position"))
                     => ret[i].title = ""

C8_Witness ==
    /\ Called("extract_volunteer_data")
    /\ Len(SectionOf(cv_data, "volunteer")) >= 2
    /\ NonEmpty(cv_data.volunteer[1], "title")
    /\ NonEmpty(cv_data.volunteer[1], "position")
    /\ ret[1].title = "Coach"
    /\ Present(cv_data.volunteer[2], "title")
    /\ cv_data.volunteer[2].title = ""
    /\ ret[2].title = "Treasurer"

(***************************************************************************)
(* C9: in the context of prepare_template_context, email is a hyperlink    *)
(* object, registered for "mailto:" + email, exactly when the extracted    *)
(* email is non-empty, and linkedin_url is a hyperlink object, registered  *)
(* for the url as it is, exactly when the extracted url is non-empty; an   *)
(* empty value stays the empty string of extract_header_data.              *)
(***************************************************************************)
EmailOf(cv) == StrOr(BasicsOf(cv), "email")

\* field is the str s when s is empty, and else a hyperlink showing s whose
\* url_id is registered on the document for target
LinkField(field, s, target) ==
    /\ (field.type = "RichText") <=> (s # "")
    /\ s # "" => /\ field.text = s
                 /\ field.style = "Hyperlink"
                 /\ field.url_id \in 1..Len(doc)
                 /\ doc[field.url_id] = target
    /\ s = "" => field = [type |-> "str", value |-> ""]

C9_HyperlinkIffNonEmpty ==
    Called("prepare_template_context")
    => /\ LinkField(ret.email, EmailOf(cv_data), <<"mailto:", EmailOf(cv_data)>>)
       /\ LinkField(ret.linkedin_url, FirstLinkedInUrl(cv_data),
                    <<FirstLinkedInUrl(cv_data)>>)
       /\ ret.email.type = "str" => ret.email.value = extract_header_data(cv_data).email
       /\ ret.linkedin_url.type = "str" =>
            ret.linkedin_url.value = extract_header_data(cv_data).linkedin_url

C9_Witness ==
    /\ Called("prepare_template_context")
    /\ EmailOf(cv_data) = ""
    /\ FirstLinkedInUrl(cv_data) = "u2"
    /\ ret.email = [type |-> "str", value |-> ""]
    /\ ret.linkedin_url.type = "RichText"
    /\ doc = << <<"u2">> >>

C11_ProfileMetadata ==
    Called("prepare_template_context")
    => IF profile.some
       THEN /\ Present(ret, "profile_name")
            /\ Present(ret, "profile_id")
            /\ ret.profile_name = StrOr(profile.val, "name")
            /\ ret.profile_id = StrOr(profile.val, "profileId")
            /\ ret.earlier_experience_mode =
                 IF DisplaySetting(profile.val, "showSection") = "false"
                 THEN "hidden"
                 ELSE IF DisplaySetting(profile.val, "defaultMode") = "absent"
                      THEN "detailed"
                      ELSE DisplaySetting(profile.val, "defaultMode")
       ELSE ~ Present(ret, "profile_name") /\ ~ Present(ret, "profile_id")

(***************************************************************************)
(* C12: extract_work_data places an entry in EarlierWork only when its     *)
(* isEarlierExperience is the literal true; an entry whose flag is absent, *)
(* false or any non-boolean value (1, a non-empty string, a non-empty      *)
(* list) is placed in MainWork.                                            *)
(***************************************************************************)
C12_OnlyLiteralTrue ==
    Called("extract_work_data")
    => LET w == WorkOf(cv_data)
       IN  /\ Len(ret[2]) = Cardinality(EarlierIdx(w))
           /\ Len(ret[1]) = Cardinality(MainIdx(w))
           /\ \A i \in EarlierIdx(w) :
                ret[2][Rank(i, EarlierIdx(w))].company = StrOr(w[i], "company")
           /\ \A i \in MainIdx(w) :
                ret[1][Rank(i, MainIdx(w))].company = StrOr(w[i], "company")

(***************************************************************************)
(* C15: one call of prepare_template_context registers on the document     *)
(* handle one hyperlink for "mailto:" + email exactly when the email is    *)
(* non-empty, then one for the LinkedIn url exactly when that is           *)
(* non-empty, and nothing else: at most two registrations.                 *)
(***************************************************************************)
ExpectedRegistrations(cv) ==
    (IF EmailOf(cv) # "" THEN << <<"mailto:", EmailOf(cv)>> >> ELSE <<>>) \o
    (IF FirstLinkedInUrl(cv) # "" THEN << <<FirstLinkedInUrl(cv)>> >> ELSE <<>>)

C15_AtMostOneRegistrationEach ==
    Called("prepare_template_context")
    => /\ doc = ExpectedRegistrations(cv_data)
       /\ Len(doc) <= 2

C15_Witness ==
    /\ Called("prepare_template_context")
    /\ EmailOf(cv_data) = "a@x.ch"
    /\ FirstLinkedInUrl(cv_data) = "u1"
    /\ doc = << <<"mailto:", "a@x.ch">>, <<"u1">> >>
    /\ ret.email.url_id = 1
    /\ ret.linkedin_url.url_id = 2

(***************************************************************************)
(* C16: for every work entry, the highlights of the position produced by   *)
(* extract_work_data have the length of the entry's highlight list, and    *)
(* the i-th one is the text of the i-th source highlight, "" when that has *)
(* no text field; no highlight is skipped and the order is kept.           *)
(***************************************************************************)
\* the position extract_work_data produced for the i-th work entry
PositionOf(w, i) ==
    IF i \in EarlierIdx(w)
    THEN ret[2][Rank(i, EarlierIdx(w))]
    ELSE ret[1][Rank(i, MainIdx(w))]

C16_HighlightsProjected ==
    Called("extract_work_data")
    => LET w == WorkOf(cv_data)
       IN  /\ Len(ret[1]) + Len(ret[2]) = Len(w)
           /\ \A i \in 1..Len(w) :
                LET src == SectionOf(w[i], "highlights")
                    out == PositionOf(w, i).highlights
                IN  /\ Len(out) = Len(src)
                    /\ \A h \in 1..Len(src) : out[h] = StrOr(src[h], "text")

C16_Witness ==
    /\ Called("extract_work_data")
    /\ Len(WorkOf(cv_data)) = 1
    /\ ~ Present(cv_data.work[1], "isEarlierExperience")
    /\ Present(cv_data.work[1], "highlights")
    /\ Len(cv_data.work[1].highlights) = 2
    /\ ~ Present(cv_data.work[1].highlights[1], "text")
    /\ Present(cv_data.work[1].highlights[2], "text")
    /\ ret[1][1].highlights = <<"", cv_data.work[1].highlights[2].text>>

(***************************************************************************)
(* C13: no extraction function, get_earlier_experience_settings or         *)
(* prepare_template_context modifies the record or the profile it is       *)
(* given; each call returns a newly built value that depends on its        *)
(* arguments only, so a call repeated on the same inputs returns an equal  *)
(* result, whatever was called before it.                                  *)
(***************************************************************************)
\* the value a call of the function named f returns on the inputs of the state
ResultOf(f) ==
    CASE f = "extract_header_data" -> extract_header_data(cv_data)
      [] f = "extract_summary_data" -> extract_summary_data(cv_data)
      [] f = "extract_work_data" -> extract_work_data(cv_data)
      [] f = "extract_education_data" -> extract_education_data(cv_data)
      [] f = "extract_volunteer_data" -> extract_volunteer_data(cv_data)
      [] f = "extract_competencies_data" -> extract_competencies_data(cv_data)
      [] f = "extract_languages_data" -> extract_languages_data(cv_data)
      [] f = "get_earlier_experience_settings" ->
             get_earlier_experience_settings(profile.val)
      [] f = "prepare_template_context" ->
             prepare_template_context(cv_data, <<>>, profile).context

FillOrder(profile_path) ==
    <<"load_template">> \o
    (IF profile_path # "" THEN <<"load_profile">> ELSE <<>>) \o
    <<"prepare_context", "render", "save">>

IsPrefix(s, t) == Len(s) <= Len(t) /\ s = SubSeq(t, 1, Len(s))

StepsOf(s) == {s[i] : i \in 1..Len(s)}

C14_FixedOrderNoRetry ==
    /\ IsPrefix(fill.steps, FillOrder(fill.profile_path))
    /\ fill.pc = "raised"
       => /\ exc # "none"
          /\ fill.failed_at = fill.steps[Len(fill.steps)]
    /\ fill.failed_at \notin {"none", "save"}
       => /\ fill.pc = "raised"
          /\ "save" \notin StepsOf(fill.steps)
          /\ ~ fill.saved
    /\ fill.saved
       => /\ fill.steps = FillOrder(fill.profile_path)
          /\ fill.failed_at = "none"
          /\ exc = "none"
          /\ ret = prepare_template_context(cv_data, <<>>, profile).context

C14_Witness ==
    /\ fill.pc = "raised"
    /\ exc = "AttributeError"
    /\ profile.some
    /\ fill.steps = <<"load_template", "load_profile", "prepare_context">>
    /\ ~ fill.saved

(***************************************************************************)
(* The generation threads that have not yet passed their callback to       *)
(* root.after.                                                             *)
(***************************************************************************)
Generating(g) ==
    {i \in 1..Len(g.threads) : g.threads[i].pc \notin {"leave_except", "return"}}

\* a thread is started only by _generate_cv, with is_generating false before
\* and true after, and it is the only thread added
StartRule ==
    Len(gui.threads') > Len(gui.threads)
    => /\ op' = "_generate_cv"
       /\ ~ gui.is_generating
       /\ gui.is_generating'
       /\ gui.threads' = Append(gui.threads, gui.threads'[Len(gui.threads')])
       /\ gui.threads'[Len(gui.threads')].pc = "load_master_cv"

\* a Generate request while is_generating is true changes nothing
BusyRule == (op' = "_generate_cv" /\ gui.is_generating) => gui' = gui

\* is_generating is reset by _generation_complete only
ResetRule ==
    (gui.is_generating /\ ~ gui.is_generating') => op' = "_generation_complete"

(***************************************************************************)
(* C17 as stated: at most one background generation thread exists at any   *)
(* time; _generate_cv starts a thread only when is_generating is false and *)
(* sets it before the start; a Generate request while is_generating is     *)
(* true starts no thread and changes no state; is_generating becomes false *)
(* only in _generation_complete.                                           *)
(***************************************************************************)
C17_AtMostOneThread ==
    [][/\ Len(gui.threads') <= 1
       /\ StartRule
       /\ BusyRule
       /\ ResetRule]_vars

(***************************************************************************)
(* C17 amended: at most one background thread is generating, that is, has  *)
(* not yet passed its callback to root.after, and while there is one       *)
(* is_generating is true (a thread that has passed its callback may still  *)
(* be returning when the next one is started); the rules on starting,      *)
(* on a request while busy and on the reset of is_generating as stated.    *)
(***************************************************************************)
C17_AtMostOneGenerating ==
    [][/\ Cardinality(Generating(gui')) <= 1
       /\ Generating(gui') # {} => gui.is_generating'
       /\ StartRule
       /\ BusyRule
       /\ ResetRule]_vars

C17_Witness ==
    /\ op = "_generate_cv"
    /\ gui.is_generating
    /\ Len(gui.threads) = 2
    /\ gui.threads[1].pc = "return"
    /\ gui.threads[2].pc = "load_master_cv"

(***************************************************************************)
(* C18: every generation started comes to its end: while is_generating is  *)
(* true either a thread is still to pass its callback to root.after or     *)
(* the callback is queued, and it is the only one; when is_generating is   *)
(* false the Generate button is enabled.  So the window is never left      *)
(* generating with nothing under way that would reset it.                  *)
(***************************************************************************)
C18_GenerationCompletes ==
    /\ gui.is_generating
       => Cardinality(Generating(gui)) + Len(gui.after_queue) = 1
    /\ ~ gui.is_generating
       => /\ gui.generate_btn = "normal"
          /\ Generating(gui) = {}
          /\ gui.after_queue = <<>>

=============================================================================
